---- MODULE Spec2Model ----
(***************************************************************************)
(* Model of the SPI flash controller of src/src/lib.rs.                    *)
(*                                                                         *)
(* The controller talks to the chip through SPI.transfer(byte), which      *)
(* clocks one byte out and one byte in.  The model records every transfer  *)
(* of the operation call in progress in `log`, in order, each entry        *)
(* tagged with the place of the source that made it:                       *)
(*    "status_op"  SPI.transfer(SPIFLASH_STATUSREAD)      read_status      *)
(*    "status"     SPI.transfer(0) returning the status   read_status      *)
(*    "cmd"        SPI.transfer(command)                  command          *)
(*    "addr"       SPI.transfer(addr >> n)                                 *)
(*    "data"       a byte written to the chip                              *)
(*    "dummy"      a transfer whose received byte is thrown away           *)
(*    "rx"         a transfer whose received byte is kept                  *)
(*                                                                         *)
(* How the calls the source does not define are read:                      *)
(*  - write_byte and chip_erase call self.command_write(op); the only      *)
(*    function of that kind in the file is write_command (lines 54-56),    *)
(*    whose body is command(SPIFLASH_WRITEENABLE) and never uses its       *)
(*    argument.                                                            *)
(*  - erase_*_block call self.command(op, true); command (lines 58-68)     *)
(*    takes one argument and has no code for a second one, so the call is  *)
(*    command(op).                                                         *)
(*                                                                         *)
(* The chip is a scripted transport: it answers the first N status reads   *)
(* of a call with BUSY=1 and the later ones with BUSY=0, the upper seven   *)
(* status bits follow a fixed pattern, and data bytes follow MockData.     *)
(*                                                                         *)
(* Two further environments are kept apart from Spec by their initial      *)
(* state.  With a faulty transport (SpecFault) one transfer of a call may   *)
(* fail: the Transmitter of examples/status_read.rs drops the Result of     *)
(* spi.write / spi.read, so the controller sees no error and a garbage      *)
(* byte.  With a hanging chip (SpecHang) a call may meet a chip that        *)
(* reports BUSY=1 forever, and a chip put to sleep by 0xB9 answers every    *)
(* status read with bit 0 set until 0xAB wakes it; the log then records     *)
(* only the first MaxBusy+1 polls of a wait, so that a wait that never      *)
(* ends is a loop of the state graph.                                       *)
(***************************************************************************)
EXTENDS Integers, Sequences, FiniteSets, TLC

\* ------------------------------------------------------------- bounds
MaxBusy == 2      \* the chip reports busy for at most this many polls
MaxLen == 2       \* longest buffer handed to read_bytes
MaxAddrIdx == 2   \* number of generated addresses beyond the fixed ones
MaxSeed == 1      \* number of different data patterns of the chip
MaxFault == 5     \* a faulty transport fails one of the first MaxFault transfers

\* ------------------------------------------------------------- opcodes
SPIFLASH_WRITEENABLE == 6
SPIFLASH_WRITEDISABLE == 4
SPIFLASH_BLOCKERASE_4K == 32
SPIFLASH_BLOCKERASE_32K == 82
SPIFLASH_BLOCKERASE_64K == 216
SPIFLASH_CHIPERASE == 96
SPIFLASH_STATUSREAD == 5
SPIFLASH_STATUSWRITE == 1
SPIFLASH_ARRAYREAD == 11
SPIFLASH_ARRAYREADLOWFREQ == 3
SPIFLASH_SLEEP == 185
SPIFLASH_WAKE == 171
SPIFLASH_BYTEPAGEPROGRAM == 2
SPIFLASH_IDREAD == 159
SPIFLASH_MACREAD == 75

\* ------------------------------------------------------------- inputs
\* Addresses are u32; the sample holds 0, the aligned and unaligned cases and
\* values above 24 bits (0x12345, 0x7FFFFFFF, k * 0x01012345).  The checker's
\* integers end at 2^31 - 1, so bit 31 is left clear.
Addresses ==
    {74565, 2147483647} \cup {(k * 16851781) % 2147483647 : k \in 0..MaxAddrIdx}

DataBytes == {0, 165}

StatusPatterns == {0, 254}

JedecIds == {0, 61232}

\* What a failed transfer leaves in the receive byte.
GarbageBytes == {0, 255}

Operations ==
    {"unlock", "read_device_id", "read_unique_id", "read_byte", "read_bytes",
     "write_byte", "read_status", "chip_erase", "erase_4k_block",
     "erase_32k_block", "erase_64k_block", "sleep", "wakeup"}

\* ------------------------------------------------------------- state
VARIABLES
    op,          \* the operation in progress or last returned ("none" at start)
    pc,          \* "wait" | "cmd" | "body" | "done"
    i,           \* index of the next transfer of the operation's body
    cmd,         \* the opcode handed to command()
    addr,        \* the address argument (u32)
    byte,        \* the data argument of write_byte
    len,         \* buffer.len() of read_bytes
    log,         \* the transfers of this call, in order
    N,           \* the chip's script: status reads of this call answered busy
    busyLeft,    \* status reads still to be answered busy
    pattern,     \* upper seven bits of the status byte the chip returns
    seed,        \* data pattern of the chip
    jedec_id,    \* SPIFlash.jedec_id
    UNIQUEID,    \* SPIFlash::UNIQUEID[8]
    buffer,      \* the caller's buffer of read_bytes
    result,      \* the byte read_byte / read_status holds when it returns
    outcome,     \* what the caller gets back: "none" while running, then "ok"
    transport,   \* "sound" | "faulty": whether a transfer may fail
    faultAt,     \* which transfer of this call fails (0: none), polls not counted
    failedAt,    \* position in log of the transfer that failed (0: none)
    chip,        \* "scripted" | "hanging": whether the chip may stay busy
    wedged,      \* the chip reports BUSY=1 to every status read of this call
    asleep       \* the chip is in deep power down and cannot report status

vars ==
    <<op, pc, i, cmd, addr, byte, len, log, N, busyLeft, pattern, seed,
      jedec_id, UNIQUEID, buffer, result, outcome, transport, faultAt,
      failedAt, chip, wedged, asleep>>

fields == <<jedec_id, UNIQUEID, buffer, result>>

world == <<transport, chip>>

\* ------------------------------------------------------------- helpers
\* SPI.transfer takes a byte: a wider value is cut to its low eight bits.
U8(x) == x % 256

Shr(x, n) == x \div (2 ^ n)

T(tx, role, k) == [tx |-> tx, role |-> role, k |-> k]

\* The bytes the chip clocks out in answer to data reads.
MockData(s, k) == (31 + 91 * s + 17 * k) % 256

\* Variant: the address goes out least significant byte first.
AddressTransfers_lsb_first(a) ==
    << T(U8(a), "addr", 1),
       T(U8(Shr(a, 8)), "addr", 2),
       T(U8(Shr(a, 16)), "addr", 3) >>

\* The three address transfers every addressed operation makes.
AddressTransfers(a) ==
    << T(U8(Shr(a, 16)), "addr", 1),
       T(U8(Shr(a, 8)), "addr", 2),
       T(U8(a), "addr", 3) >>

\* ------------------------------------------------------------- the code
\* Variant: the test of bit 0 compares against 1 and is never true.
busy_never_true(status) == status % 2 > 1

\* Variant: the loop tests the whole status byte instead of bit 0.
busy_any_bit(status) == status > 0

\* fn busy(): self.read_status() & 1 > 0
busy(status) == status % 2 > 0

\* fn read_status(): SPI.transfer(SPIFLASH_STATUSREAD); SPI.transfer(0)
read_status_transfers ==
    << T(SPIFLASH_STATUSREAD, "status_op", 0), T(0, "status", 0) >>

\* Variants of the test that guards the wait loop: no exemption at all,
\* SLEEP exempted like WAKE, the read opcodes exempted like WAKE.
command_waits_always(c) == TRUE

command_waits_not_sleep(c) == c \notin {SPIFLASH_WAKE, SPIFLASH_SLEEP}

command_waits_not_reads(c) ==
    c \notin {SPIFLASH_WAKE, SPIFLASH_IDREAD, SPIFLASH_MACREAD,
              SPIFLASH_ARRAYREAD, SPIFLASH_ARRAYREADLOWFREQ}

\* command(): if cmd != SPIFLASH_WAKE { while busy(); }
command_waits(c) == c # SPIFLASH_WAKE

\* write_command(command): command(SPIFLASH_WRITEENABLE).  The value is the
\* opcode that reaches command(); the argument is not used by the body.
write_command(c) == SPIFLASH_WRITEENABLE

\* The transfers each operation makes after its call of command().
unlock_transfers == << T(0, "data", 1) >>

read_device_id_transfers == << T(0, "rx", 1), T(0, "rx", 2) >>

\* Variant: read_unique_id keeps the first eight bytes after the opcode.
read_unique_id_transfers_no_dummies == [j \in 1..8 |-> T(0, "rx", j)]

read_unique_id_transfers ==
    [j \in 1..12 |-> IF j <= 4 THEN T(0, "dummy", j) ELSE T(0, "rx", j - 4)]

read_byte_transfers(a) == AddressTransfers(a) \o << T(0, "rx", 1) >>

\* Variant: read_bytes leaves out the dummy byte of the fast read.
read_bytes_transfers_no_dummy(a, n) ==
    AddressTransfers(a) \o [j \in 1..n |-> T(0, "rx", j)]

read_bytes_transfers(a, n) ==
    AddressTransfers(a) \o << T(0, "dummy", 1) >> \o [j \in 1..n |-> T(0, "rx", j)]

\* Variant: write_byte polls the status once more after the data byte.
write_byte_transfers_then_poll(a, b) ==
    AddressTransfers(a) \o << T(U8(b), "data", 1) >> \o read_status_transfers

write_byte_transfers(a, b) == AddressTransfers(a) \o << T(U8(b), "data", 1) >>

chip_erase_transfers == << >>

\* Variants: erase_4k_block clears the low 12 bits of the address before
\* sending it; erase_4k_block polls the status after the address.
erase_4k_block_transfers_aligned(a) == AddressTransfers(a - (a % 4096))

erase_4k_block_transfers_then_poll(a) == AddressTransfers(a) \o read_status_transfers

erase_4k_block_transfers(a) == AddressTransfers(a)

erase_32k_block_transfers(a) == AddressTransfers(a)

erase_64k_block_transfers(a) == AddressTransfers(a)

sleep_transfers == << >>

wakeup_transfers == << >>

Transfers ==
    CASE op = "unlock" -> unlock_transfers
      [] op = "read_device_id" -> read_device_id_transfers
      [] op = "read_unique_id" -> read_unique_id_transfers
      [] op = "read_byte" -> read_byte_transfers(addr)
      [] op = "read_bytes" -> read_bytes_transfers(addr, len)
      [] op = "write_byte" -> write_byte_transfers(addr, byte)
      [] op = "read_status" -> read_status_transfers
      [] op = "chip_erase" -> chip_erase_transfers
      [] op = "erase_4k_block" -> erase_4k_block_transfers(addr)
      [] op = "erase_32k_block" -> erase_32k_block_transfers(addr)
      [] op = "erase_64k_block" -> erase_64k_block_transfers(addr)
      [] op = "sleep" -> sleep_transfers
      [] op = "wakeup" -> wakeup_transfers
      [] OTHER -> << >>

\* ------------------------------------------------------------- the chip
\* The status byte the chip clocks out now.
Stuck == wedged \/ asleep

ChipStatus == pattern + (IF busyLeft > 0 \/ Stuck THEN 1 ELSE 0)

Logged(e, rx) == [tx |-> e.tx, rx |-> rx, role |-> e.role, k |-> e.k]

\* ------------------------------------------------------------- Init
Start ==
    /\ op = "none"
    /\ pc = "done"
    /\ i = 1
    /\ cmd = 0
    /\ addr = 0
    /\ byte = 0
    /\ len = 0
    /\ log = << >>
    /\ N = 0
    /\ busyLeft = 0
    /\ pattern = 0
    /\ seed \in 0..MaxSeed
    /\ jedec_id \in JedecIds
    /\ UNIQUEID = [j \in 1..8 |-> 0]
    /\ buffer = << >>
    /\ result = 0
    /\ outcome = "none"
    /\ faultAt = 0
    /\ failedAt = 0
    /\ wedged = FALSE
    /\ asleep = FALSE

Init == Start /\ transport = "sound" /\ chip = "scripted"

InitFault == Start /\ seed = 0 /\ transport = "faulty" /\ chip = "scripted"

InitHang == Start /\ seed = 0 /\ transport = "sound" /\ chip = "hanging"

\* ------------------------------------------------------------- calls
\* The caller enters operation o with arguments a, b and a buffer of n bytes
\* (0 for an argument the operation does not take); the chip's script for
\* the call is drawn here.  Entry is possible when no call is running.  The
\* locals of the call (the buffer handed in, the value to return) start
\* afresh; the controller's fields are kept.
\* The data the chip holds (seed) belongs to the chip and stays as it was
\* when the controller was constructed.
\* A faulty transport fails a transfer of a call that meets an idle chip: the
\* fault does not depend on the chip's script, so one script is enough.
\* With a hanging chip the calls vary the chip's answers to the status reads
\* and not the data: two addresses, one data byte, one data pattern.
Enter(o, a, b, n) ==
    /\ pc = "done"
    /\ chip = "hanging" => (a \in {0, 74565} /\ b = 0 /\ n <= 1)
    /\ op' = o
    /\ addr' = a
    /\ byte' = b
    /\ len' = n
    /\ i' = 1
    /\ log' = << >>
    /\ wedged' \in IF chip = "hanging" THEN BOOLEAN ELSE {FALSE}
    /\ N' \in IF wedged' THEN {0} ELSE 0..MaxBusy
    /\ busyLeft' = N'
    /\ pattern' \in StatusPatterns
    /\ faultAt' \in IF transport = "faulty" /\ N' = 0 /\ pattern' = 0
                    THEN 0..MaxFault ELSE {0}
    /\ failedAt' = 0
    /\ outcome' = "none"
    /\ buffer' = [j \in 1..n |-> 0]
    /\ result' = 0
    /\ UNCHANGED <<seed, jedec_id, UNIQUEID, asleep, world>>

\* self.command(c): the wait loop is entered unless c is WAKE.
command(c) ==
    /\ cmd' = c
    /\ pc' = IF command_waits(c) THEN "wait" ELSE "cmd"

unlock ==
    /\ Enter("unlock", 0, 0, 0)
    /\ command(write_command(SPIFLASH_STATUSWRITE))

read_device_id ==
    /\ Enter("read_device_id", 0, 0, 0)
    /\ command(SPIFLASH_IDREAD)

read_unique_id ==
    /\ Enter("read_unique_id", 0, 0, 0)
    /\ command(SPIFLASH_MACREAD)

read_byte ==
    /\ \E a \in Addresses : Enter("read_byte", a, 0, 0)
    /\ command(SPIFLASH_ARRAYREADLOWFREQ)

read_bytes ==
    /\ \E a \in Addresses, n \in 0..MaxLen : Enter("read_bytes", a, 0, n)
    /\ command(SPIFLASH_ARRAYREAD)

write_byte ==
    /\ \E a \in Addresses, b \in DataBytes : Enter("write_byte", a, b, 0)
    /\ command(write_command(SPIFLASH_BYTEPAGEPROGRAM))

read_status ==
    /\ Enter("read_status", 0, 0, 0)
    /\ cmd' = 0
    /\ pc' = "body"

chip_erase ==
    /\ Enter("chip_erase", 0, 0, 0)
    /\ command(write_command(SPIFLASH_CHIPERASE))

erase_4k_block ==
    /\ \E a \in Addresses : Enter("erase_4k_block", a, 0, 0)
    /\ command(SPIFLASH_BLOCKERASE_4K)

erase_32k_block ==
    /\ \E a \in Addresses : Enter("erase_32k_block", a, 0, 0)
    /\ command(SPIFLASH_BLOCKERASE_32K)

erase_64k_block ==
    /\ \E a \in Addresses : Enter("erase_64k_block", a, 0, 0)
    /\ command(SPIFLASH_BLOCKERASE_64K)

sleep ==
    /\ Enter("sleep", 0, 0, 0)
    /\ command(SPIFLASH_SLEEP)

wakeup ==
    /\ Enter("wakeup", 0, 0, 0)
    /\ command(SPIFLASH_WAKE)

\* ------------------------------------------------------------- steps
\* One turn of `while busy();`: a read_status transaction, then the test.
command_wait ==
    /\ pc = "wait"
    /\ log' = IF Stuck /\ Len(log) >= 2 * (MaxBusy + 1)
              THEN log
              ELSE log \o << Logged(read_status_transfers[1], 0),
                             Logged(read_status_transfers[2], ChipStatus) >>
    /\ busyLeft' = IF busyLeft > 0 THEN busyLeft - 1 ELSE 0
    /\ pc' = IF busy(ChipStatus) THEN "wait" ELSE "cmd"
    /\ UNCHANGED <<op, i, cmd, addr, byte, len, N, pattern, seed, fields>>
    /\ UNCHANGED <<outcome, faultAt, failedAt, wedged, asleep, world>>

\* SPI.transfer(command), the last statement of command().
command_transfer ==
    /\ pc = "cmd"
    /\ log' = Append(log, Logged(T(cmd, "cmd", 0), 0))
    /\ failedAt' = IF faultAt = 1 THEN Len(log) + 1 ELSE failedAt
    /\ asleep' = IF chip = "hanging" /\ faultAt # 1
                 THEN (cmd = SPIFLASH_SLEEP \/ (asleep /\ cmd # SPIFLASH_WAKE))
                 ELSE asleep
    /\ pc' = "body"
    /\ UNCHANGED <<op, i, cmd, addr, byte, len, N, busyLeft, pattern, seed, fields>>
    /\ UNCHANGED <<outcome, faultAt, wedged, world>>

\* The byte the chip clocks out during body transfer e.
Received(e) ==
    CASE e.role = "status" -> ChipStatus
      [] e.role = "rx" -> MockData(seed, e.k)
      [] OTHER -> 0

\* The number of body transfer i among the transfers of the call, the polls
\* of the wait loop left out: SPI.transfer(command) is the first.
FrameIndex == IF op = "read_status" THEN i ELSE i + 1

\* The next SPI.transfer of the operation's body, with the assignment the
\* source makes from the byte received.  A transfer that fails hands back a
\* garbage byte; the code has no test for it and goes on.
transfer ==
    /\ pc = "body"
    /\ i <= Len(Transfers)
    /\ \E garbage \in IF faultAt = FrameIndex THEN GarbageBytes ELSE {0} :
       LET e == Transfers[i]
           fails == faultAt = FrameIndex
           rx == IF fails /\ e.role \in {"status", "rx"} THEN garbage ELSE Received(e)
       IN /\ log' = Append(log, Logged(e, rx))
          /\ failedAt' = IF fails THEN Len(log) + 1 ELSE failedAt
          /\ busyLeft' = IF e.role = "status" /\ busyLeft > 0
                         THEN busyLeft - 1 ELSE busyLeft
          /\ jedec_id' = IF op = "read_device_id" /\ e.role = "rx" /\ e.k = 2
                         THEN log[Len(log)].rx * 256 + rx ELSE jedec_id
          /\ UNIQUEID' = IF op = "read_unique_id" /\ e.role = "rx"
                         THEN [UNIQUEID EXCEPT ![e.k] = rx] ELSE UNIQUEID
          /\ buffer' = IF op = "read_bytes" /\ e.role = "rx"
                       THEN [buffer EXCEPT ![e.k] = rx] ELSE buffer
          /\ result' = IF op = "read_byte" /\ e.role = "rx" THEN rx
                       ELSE IF op = "read_status" /\ e.role = "status" THEN rx
                       ELSE result
    /\ i' = i + 1
    /\ UNCHANGED <<op, pc, cmd, addr, byte, len, N, pattern, seed>>
    /\ UNCHANGED <<outcome, faultAt, wedged, asleep, world>>

\* The operation returns to its caller.  No method of SPIFlash has an error
\* to return: the caller is handed the plain value, whatever went before.
return ==
    /\ pc = "body"
    /\ i > Len(Transfers)
    /\ pc' = "done"
    /\ outcome' = "ok"
    /\ UNCHANGED <<op, i, cmd, addr, byte, len, log, N, busyLeft, pattern, seed, fields>>
    /\ UNCHANGED <<faultAt, failedAt, wedged, asleep, world>>

Next ==
    \/ unlock
    \/ read_device_id
    \/ read_unique_id
    \/ read_byte
    \/ read_bytes
    \/ write_byte
    \/ read_status
    \/ chip_erase
    \/ erase_4k_block
    \/ erase_32k_block
    \/ erase_64k_block
    \/ sleep
    \/ wakeup
    \/ command_wait
    \/ command_transfer
    \/ transfer
    \/ return

Spec == Init /\ [][Next]_vars

\* The same controller over a transport that may fail a transfer.
SpecFault == InitFault /\ [][Next]_vars

\* The same controller with a chip that may stay busy.  The code runs one
\* statement after the other, so every step that can be taken is taken.
SpecHang ==
    /\ InitHang
    /\ [][Next]_vars
    /\ WF_vars(command_wait)
    /\ WF_vars(command_transfer)
    /\ WF_vars(transfer)
    /\ WF_vars(return)

TypeOK ==
    /\ op \in Operations \cup {"none"}
    /\ pc \in {"wait", "cmd", "body", "done"}
    /\ busyLeft \in 0..MaxBusy
    /\ jedec_id \in 0..65535
    /\ \A j \in 1..Len(log) : log[j].tx \in 0..255 /\ log[j].rx \in 0..255

\* ------------------------------------------------------------- reading the log
IsPoll(e) == e.role \in {"status_op", "status"}

IsOpcode(e) == e.role \in {"cmd", "status_op"}

StatusReadAt == {k \in 1..Len(log) : log[k].role = "status"}

StatusReads == Cardinality(StatusReadAt)

CmdAt == {k \in 1..Len(log) : log[k].role = "cmd"}

\* Position k holds an opcode sent right after a status read that said BUSY=0.
AfterNotBusyRead(k) ==
    /\ k >= 3
    /\ log[k - 2].role = "status_op"
    /\ log[k - 2].tx = 5
    /\ log[k - 1].role = "status"
    /\ log[k - 1].rx % 2 = 0

TxOf(e) == e.tx

NotPoll(e) == ~IsPoll(e)

\* The bytes transmitted in this call, status polls left out.
FrameSent ==
    LET kept == SelectSeq(log, NotPoll)
    IN [k \in 1..Len(kept) |-> kept[k].tx]

MutatingOpcodes == {2, 32, 82, 216, 96}

Returned == pc = "done" /\ op # "none"

\* ------------------------------------------------------------- C1
\* C1: every transmission of a mutating opcode (0x02, 0x20, 0x52, 0xD8,
\* 0x60) is preceded, within the same operation call and after any earlier
\* mutating opcode, by a transmission of the write-enable opcode 0x06.
C1_WriteEnablePrecedesMutating ==
    \A k \in CmdAt :
        log[k].tx \in MutatingOpcodes =>
            \E j \in CmdAt :
                /\ j < k
                /\ log[j].tx = 6
                /\ \A m \in CmdAt : (j < m /\ m < k) => log[m].tx \notin MutatingOpcodes

\* ------------------------------------------------------------- C2
\* The bytes that follow the opcode of the call.
AfterCmd ==
    LET k == CHOOSE c \in CmdAt : \A d \in CmdAt : c <= d
    IN [j \in 1..(Len(log) - k) |-> log[k + j].tx]

C3_EveryOpcodeAfterNotBusy ==
    \A k \in 1..Len(log) :
        (IsOpcode(log[k]) /\ log[k].tx # 171) => AfterNotBusyRead(k)

\* C3 amended: every opcode other than WAKE and the status-read opcode of the
\* polls themselves is sent only immediately after a status read that
\* returned BUSY=0.
C3_CommandOpcodeAfterNotBusy ==
    \A k \in CmdAt : log[k].tx # 171 => AfterNotBusyRead(k)

C3_Witness ==
    /\ Returned
    /\ N >= 1
    /\ \E k \in CmdAt : log[k].tx = 185

\* ------------------------------------------------------------- C4
\* C4: wakeup() transmits exactly the opcode 0xAB and performs no status read
\* before it, whatever status the chip would report.
C4_WakeupSendsOnlyWake ==
    op = "wakeup" =>
        /\ StatusReads = 0
        /\ \A k \in 1..Len(log) : log[k].role = "cmd" /\ log[k].tx = 171
        /\ Len(log) <= 1
        /\ pc = "done" => Len(log) = 1

C4_Witness ==
    /\ op = "wakeup"
    /\ pc = "done"
    /\ busyLeft >= 1
    /\ FrameSent = << 171 >>

\* ------------------------------------------------------------- C5
\* C5 as stated: sleep() issues no status read before the 0xB9 byte.
C5_SleepWithoutPoll ==
    op = "sleep" =>
        \A k \in CmdAt : log[k].tx = 185 =>
            \A j \in 1..(k - 1) : ~IsPoll(log[j])

\* C5 amended: sleep() transmits 0xB9 only after a busy-wait: at least one
\* status read precedes it, and it is sent right after a status read that
\* reported BUSY=0; nothing is sent after it.
C5_SleepAfterBusyWait ==
    (op = "sleep" /\ pc \in {"body", "done"}) =>
        /\ Len(log) >= 3
        /\ log[Len(log)].role = "cmd"
        /\ log[Len(log)].tx = 185
        /\ AfterNotBusyRead(Len(log))
        /\ \A j \in 1..(Len(log) - 1) : IsPoll(log[j])

C5_Witness ==
    /\ op = "sleep"
    /\ pc = "done"
    /\ N >= 1
    /\ FrameSent = << 185 >>

\* ------------------------------------------------------------- C6
ReadOperations ==
    {"read_byte", "read_bytes", "read_status", "read_device_id", "read_unique_id"}

OwnOpcode(o) ==
    CASE o = "read_byte" -> 3
      [] o = "read_bytes" -> 11
      [] o = "read_status" -> 5
      [] o = "read_device_id" -> 159
      [] o = "read_unique_id" -> 75
      [] OTHER -> 0

\* C6 as stated: each read-only operation transmits its own opcode as its
\* first transaction, with no status poll and no write-enable before it.
C6_ReadsSendOpcodeFirst ==
    (op \in ReadOperations /\ Len(log) >= 1) =>
        /\ IsOpcode(log[1])
        /\ log[1].tx = OwnOpcode(op)
        /\ (op # "read_status" => log[1].role = "cmd")

\* C6 amended: no read-only operation transmits a write-enable; read_status
\* transmits its opcode 0x05 as its first transfer with no poll before it;
\* read_byte, read_bytes, read_device_id and read_unique_id first busy-wait
\* (at least one status read) and transmit their own opcode right after a
\* status read that reported BUSY=0, and only once.
C6_ReadsWaitButReadStatus ==
    op \in ReadOperations =>
        /\ \A k \in 1..Len(log) : ~(log[k].role \in {"cmd", "data"} /\ log[k].tx = 6)
        /\ op = "read_status" =>
              /\ Len(log) <= 2
              /\ Len(log) >= 1 => (log[1].role = "status_op" /\ log[1].tx = 5)
              /\ Len(log) = 2 => log[2].role = "status"
              /\ pc = "done" => Len(log) = 2
        /\ op # "read_status" =>
              /\ \A k \in CmdAt : log[k].tx = OwnOpcode(op) /\ AfterNotBusyRead(k)
              /\ Cardinality(CmdAt) <= 1
              /\ pc \in {"body", "done"} => Cardinality(CmdAt) = 1
              /\ Len(log) >= 1 => (log[1].role = "status_op" /\ log[1].tx = 5)

C6_Witness ==
    /\ op = "read_bytes"
    /\ pc = "done"
    /\ N >= 1
    /\ Len(buffer) >= 1

\* ------------------------------------------------------------- C7
WaitingOperations == Operations \ {"wakeup", "read_status"}

\* C7: the busy-wait loop returns only after a status read that reports
\* BUSY=0, and against a chip that reports busy for N consecutive polls and
\* then not-busy it performs exactly N+1 status reads.
C7_WaitPollsNPlusOne ==
    op \in WaitingOperations =>
        /\ pc = "wait" =>
              /\ StatusReads <= N
              /\ \A k \in StatusReadAt : log[k].rx % 2 = 1
        /\ pc # "wait" =>
              /\ StatusReads = N + 1
              /\ \E k \in StatusReadAt :
                    /\ log[k].rx % 2 = 0
                    /\ \A j \in StatusReadAt : j < k => log[j].rx % 2 = 1
                    /\ \A j \in StatusReadAt : j <= k

C7_Witness ==
    /\ op \in WaitingOperations
    /\ pc = "done"
    /\ N >= 2
    /\ StatusReads = N + 1
    /\ pattern # 0

\* ------------------------------------------------------------- C8
\* C8: for every mutating or power operation the bytes transmitted, ignoring
\* status polls, are exactly the documented frame: write_byte(a,b) sends
\* 0x06, 0x02, a[23:16], a[15:8], a[7:0], b; chip_erase() sends 0x06, 0x60;
\* erase_4k/32k/64k_block(a) send 0x06, then 0x20/0x52/0xD8 and three address
\* bytes; sleep() sends 0xB9; wakeup() sends 0xAB.
C8_DocumentedFrames ==
    pc = "done" =>
        /\ op = "write_byte" =>
              FrameSent = << 6, 2, (addr \div 65536) % 256, (addr \div 256) % 256,
                             addr % 256, byte >>
        /\ op = "chip_erase" => FrameSent = << 6, 96 >>
        /\ op = "erase_4k_block" =>
              Len(FrameSent) = 5 /\ FrameSent[1] = 6 /\ FrameSent[2] = 32
        /\ op = "erase_32k_block" =>
              Len(FrameSent) = 5 /\ FrameSent[1] = 6 /\ FrameSent[2] = 82
        /\ op = "erase_64k_block" =>
              Len(FrameSent) = 5 /\ FrameSent[1] = 6 /\ FrameSent[2] = 216
        /\ op = "sleep" => FrameSent = << 185 >>
        /\ op = "wakeup" => FrameSent = << 171 >>

\* ------------------------------------------------------------- C9
\* No status read follows the opcode that command() sent.
NoPollAfterCmd ==
    \A k \in CmdAt : \A j \in 1..Len(log) : j > k => ~IsPoll(log[j])

\* C9 as stated: chip_erase() and erase_4k_block(a) return only after a
\* status read, issued after the erase opcode, has reported BUSY=0.
C9_EraseWaitsForCompletion ==
    (op \in {"chip_erase", "erase_4k_block"} /\ pc = "done") =>
        \E k \in CmdAt :
            /\ log[k].tx \in {96, 32}
            /\ \E j \in StatusReadAt : j > k /\ log[j].rx % 2 = 0

\* C9 amended: chip_erase() and erase_4k_block(a) do not wait for the erase
\* to finish: every status read of the call precedes the opcode the call
\* transmits, and the call returns right after its last transmitted byte
\* (the opcode for chip_erase, the third address byte for erase_4k_block).
C9_EraseReturnsWithoutPolling ==
    op \in {"chip_erase", "erase_4k_block"} =>
        /\ NoPollAfterCmd
        /\ pc = "done" =>
              /\ op = "chip_erase" => log[Len(log)].role = "cmd"
              /\ op = "erase_4k_block" =>
                    (log[Len(log)].role = "addr" /\ log[Len(log)].k = 3)

C9_Witness ==
    /\ op = "erase_4k_block"
    /\ pc = "done"
    /\ N >= 1
    /\ \E k \in CmdAt : log[k].tx = 32

\* ------------------------------------------------------------- C10
\* C10: write_byte(a,b) blocks only on the busy-wait that precedes its
\* command: once the data byte b has been transmitted it returns without
\* issuing any further status read.
C10_WriteByteReturnsAfterData ==
    op = "write_byte" =>
        /\ NoPollAfterCmd
        /\ \A k \in 1..Len(log) : log[k].role = "data" => k = Len(log)
        /\ pc = "done" =>
              /\ log[Len(log)].role = "data"
              /\ log[Len(log)].tx = byte
              /\ \A k \in StatusReadAt : \E c \in CmdAt : k < c

C10_Witness ==
    /\ op = "write_byte"
    /\ pc = "done"
    /\ N >= 1
    /\ byte # 0
    /\ log[Len(log)].tx = byte

\* ------------------------------------------------------------- C11
AddressedOperations ==
    {"read_byte", "read_bytes", "write_byte", "erase_4k_block",
     "erase_32k_block", "erase_64k_block"}

IsAddr(e) == e.role = "addr"

\* The address bytes transmitted in this call, in order.
AddressSent ==
    LET kept == SelectSeq(log, IsAddr)
    IN [k \in 1..Len(kept) |-> kept[k].tx]

ThreeBytes(a) == << (a \div 65536) % 256, (a \div 256) % 256, a % 256 >>

\* C11: every operation that takes an address transmits it as exactly three
\* bytes, most significant first: (a>>16)&0xFF, (a>>8)&0xFF, a&0xFF, right
\* after its opcode; so the bytes are those of the low 24 bits of a.
C11_AddressThreeBytesMsbFirst ==
    (op \in AddressedOperations /\ pc = "done") =>
        /\ AddressSent = ThreeBytes(addr)
        /\ AddressSent = ThreeBytes(addr % 16777216)
        /\ \E c \in CmdAt : \A k \in 1..Len(log) :
              log[k].role = "addr" <=> (c < k /\ k <= c + 3)

C11_Witness ==
    /\ op \in AddressedOperations
    /\ pc = "done"
    /\ addr >= 16777216
    /\ (addr % 16777216) \in Addresses
    /\ AddressSent = << 1, 35, 69 >>

\* ------------------------------------------------------------- C12
IsRx(e) == e.role = "rx"

\* The bytes received and kept in this call, in order.
Kept ==
    LET kept == SelectSeq(log, IsRx)
    IN [k \in 1..Len(kept) |-> kept[k].rx]

RolesSent ==
    LET kept == SelectSeq(log, NotPoll)
    IN [k \in 1..Len(kept) |-> kept[k].role]

\* C12: read_bytes(a, buf) transmits 0x0B, the three address bytes and
\* exactly one dummy byte, then clocks in exactly len(buf) bytes and stores
\* the i-th received byte in buf[i]; read_byte(a) transmits 0x03 and the
\* three address bytes with no dummy byte, clocks in exactly one byte and
\* returns that byte.
C12_ReadFrames ==
    pc = "done" =>
        /\ op = "read_bytes" =>
              /\ FrameSent = << 11 >> \o ThreeBytes(addr) \o [j \in 1..(len + 1) |-> 0]
              /\ RolesSent = << "cmd", "addr", "addr", "addr", "dummy" >>
                                \o [j \in 1..len |-> "rx"]
              /\ Len(buffer) = len
              /\ buffer = Kept
              /\ \A j \in 1..len : buffer[j] = MockData(seed, j)
        /\ op = "read_byte" =>
              /\ FrameSent = << 3 >> \o ThreeBytes(addr) \o << 0 >>
              /\ RolesSent = << "cmd", "addr", "addr", "addr", "rx" >>
              /\ Kept = << result >>
              /\ result = MockData(seed, 1)

C12_Witness ==
    /\ op = "read_bytes"
    /\ pc = "done"
    /\ len >= 2
    /\ buffer[1] # buffer[2]
    /\ buffer[1] # 0

\* ------------------------------------------------------------- C13
\* The transfers that follow the opcode of the call.
AfterCmdRoles ==
    LET c == CHOOSE x \in CmdAt : \A d \in CmdAt : x <= d
    IN [j \in 1..(Len(log) - c) |-> log[c + j].role]

\* C13 as stated: read_device_id() transmits 0x9F and then clocks in exactly
\* 2 bytes, read_unique_id() transmits 0x4B and then clocks in exactly 8
\* bytes; no additional bytes are exchanged in either transaction.
C13_IdReadsExchangeNoMore ==
    pc = "done" =>
        /\ op = "read_device_id" =>
              (FrameSent = << 159, 0, 0 >> /\ Len(AfterCmdRoles) = 2)
        /\ op = "read_unique_id" =>
              (FrameSent = << 75 >> \o [j \in 1..8 |-> 0] /\ Len(AfterCmdRoles) = 8)

\* C13 amended: read_device_id() transmits 0x9F and then clocks in exactly 2
\* bytes; read_unique_id() transmits 0x4B, then exchanges 4 dummy bytes whose
\* received values are thrown away, then clocks in exactly 8 bytes, which it
\* stores in UNIQUEID: 12 bytes follow the opcode.
C13_UniqueIdAfterFourDummies ==
    pc = "done" =>
        /\ op = "read_device_id" =>
              /\ FrameSent = << 159, 0, 0 >>
              /\ AfterCmdRoles = << "rx", "rx" >>
        /\ op = "read_unique_id" =>
              /\ FrameSent = << 75 >> \o [j \in 1..12 |-> 0]
              /\ AfterCmdRoles = [j \in 1..12 |-> IF j <= 4 THEN "dummy" ELSE "rx"]
              /\ UNIQUEID = Kept
              /\ Len(Kept) = 8

C13_Witness ==
    /\ op = "read_unique_id"
    /\ pc = "done"
    /\ UNIQUEID[1] # UNIQUEID[8]
    /\ N >= 1

\* ------------------------------------------------------------- C14
\* C14: when a transport transfer fails during an operation, the operation
\* returns the transport error to its caller and transmits no further bytes;
\* read_byte / read_bytes never return data as if the read had succeeded.
C14_FaultEndsTheOperation ==
    failedAt > 0 =>
        /\ Len(log) = failedAt
        /\ pc = "done" => outcome = "error"

\* ------------------------------------------------------------- C15
\* C15: the busy-wait has no timeout: against a chip that reports BUSY=1 on
\* every status read an operation that busy-waits never returns and keeps
\* issuing status reads; when the chip reports BUSY=0 after finitely many
\* reads, every operation terminates.
C15_WaitHasNoTimeout ==
    /\ [][(Stuck /\ pc = "wait") => pc' = "wait"]_vars
    /\ []((Stuck /\ pc = "wait") => ENABLED command_wait)
    /\ (~Stuck /\ pc # "done") ~> (pc = "done")

C15_Witness ==
    /\ wedged
    /\ ~asleep
    /\ pc = "wait"
    /\ StatusReads = MaxBusy + 1
    /\ \A k \in StatusReadAt : log[k].rx % 2 = 1

\* ------------------------------------------------------------- C16
\* C16: no public operation changes controller-held state: after any
\* sequence of operations the controller's fields and the process-wide
\* storage are unchanged.
C16_ControllerStateNeverChanges ==
    [][jedec_id' = jedec_id /\ UNIQUEID' = UNIQUEID]_vars

\* ------------------------------------------------------------- C17
LogTx == [k \in 1..Len(log) |-> log[k].tx]

\* C17: in a mutating operation 0x06 is transmitted first and the busy
\* polling happens after it; against a chip whose first two status reads
\* return 0x01 and later ones 0x00, erase_4k_block(0x12345) transmits 0x06,
\* then makes the two busy status polls, then transmits 0x20 0x01 0x23 0x00.
C17_WriteEnableThenPolls ==
    /\ (op \in {"write_byte", "chip_erase", "erase_4k_block", "erase_32k_block",
                "erase_64k_block"} /\ Len(log) >= 1) =>
          (log[1].role = "cmd" /\ log[1].tx = 6)
    /\ (op = "erase_4k_block" /\ addr = 74565 /\ N = 2 /\ pattern = 0 /\ pc = "done") =>
          /\ LogTx = << 6, 5, 0, 5, 0, 32, 1, 35, 0 >>
          /\ log[3].rx = 1
          /\ log[5].rx = 1

\* ------------------------------------------------------------- C18
\* C18: each call of busy() performs exactly one read_status transaction
\* (0x05, then one received byte) and is true exactly when bit 0 of the byte
\* received in that transaction is 1, whatever the other seven bits are.
C18_BusyIsBitZeroOfOneRead ==
    [][pc = "wait" =>
          /\ Len(log') = Len(log) + 2
          /\ SubSeq(log', 1, Len(log)) = log
          /\ log'[Len(log) + 1].role = "status_op"
          /\ log'[Len(log) + 1].tx = 5
          /\ log'[Len(log) + 2].role = "status"
          /\ log'[Len(log) + 2].tx = 0
          /\ pc' \in {"wait", "cmd"}
          /\ (pc' = "wait") <=> (log'[Len(log) + 2].rx % 2 = 1)]_vars

C18_Witness ==
    /\ pc = "cmd"
    /\ cmd # 171
    /\ pattern = 254
    /\ N >= 1
    /\ log[Len(log)].rx = 254
    /\ log[Len(log) - 2].rx = 255

\* ------------------------------------------------------------- C19
\* C19: command framing is contiguous: after the opcode of an operation only
\* the address, data, dummy and received bytes of that command follow; no
\* status read, write-enable or other opcode is transmitted after it, and
\* the busy polls come before the opcode.
C19_FrameIsContiguous ==
    /\ Cardinality(CmdAt) <= 1
    /\ \A c \in CmdAt :
          /\ \A j \in 1..(c - 1) : IsPoll(log[j])
          /\ \A j \in (c + 1)..Len(log) : log[j].role \in {"addr", "data", "dummy", "rx"}
    /\ CmdAt = {} => \A j \in 1..Len(log) : IsPoll(log[j])

C19_Witness ==
    /\ op = "erase_64k_block"
    /\ pc = "done"
    /\ N >= 1
    /\ addr % 65536 # 0
    /\ Len(log) = 2 * (N + 1) + 4

====
